---- MODULE Spec2Model ----
(***************************************************************************)
(* The statistics pipeline of internal/gurnel/stats.go: statsCmd.Run sets  *)
(* up a cancellable directory walk (walkFiles), a pool of entryScanner     *)
(* goroutines, a goroutine that closes the result channel once the pool's  *)
(* WaitGroup drains, and merges the per-file results in its own loop.      *)
(*                                                                         *)
(* Channels are modelled by what Go guarantees of them: paths and c are    *)
(* unbuffered, so a send and its receive are one joint step of the two     *)
(* goroutines; errc has capacity one; done is only ever closed. A select   *)
(* with several ready cases may take any of them.                          *)
(***************************************************************************)
EXTENDS Integers, Sequences, FiniteSets, TLC

\* ------------------------------------------------------------- bounds
\* Longest walk (number of directory entries Walk visits).
MaxFiles == 3
\* Largest pool the model runs (the program runs numScanners workers).
MaxScanners == 2
\* Longest walk over the wider set of entries (MoreFiles).
MaxMoreFiles == 2

\* ---------------------------------------------------------- constants
\* t := time.Now(), in hours since the zero time.
Now == 100
\* topUnusualWordCount := 100
topUnusualWordCount == 100

\* error values
Nil == "nil"
Unset == "unset"
WalkCanceled == "walk canceled"
FileSystemError == "FileSystemError"
EntryLoadError == "EntryLoadError"
OtherLoadError == "EntryLoadError of another file"
WorkingDirectoryError == "WorkingDirectoryError"
Panic == "panic: slice bounds out of range"

\* ------------------------------------------------------------- inputs
\* Tokens as journalentry's Words() yields them, and strings.ToLower.
Tokens == {"Hi", "hi", "there", "World"}

\* Mutant of ToLower: the token is kept as it is.
ToLowerKeepsCase(tok) == tok

ToLower(tok) ==
  CASE tok = "Hi" -> "hi"
    [] tok = "World" -> "world"
    [] OTHER -> tok

Vocab == {ToLower(tok) : tok \in Tokens}

\* What Walk meets under the root, in walk order: each entry has a base
\* name; walkErr is the err Walk passes to the callback; regular is
\* info.Mode().IsRegular(); isEntry is journalentry.IsEntry(path); loadErr
\* is what p.Load() returns; words is p.Words(); date is what p.Date()
\* returns (0, the zero time, when the date cannot be read).
File(n, we, reg, ent, le, ws, d) ==
  [name |-> n, walkErr |-> we, regular |-> reg, isEntry |-> ent,
   loadErr |-> le, words |-> ws, date |-> d]

Files ==
  { File("a", Nil, TRUE, TRUE, Nil, <<"Hi", "hi", "there">>, 40),
    File("b", Nil, TRUE, TRUE, Nil, <<"Hi", "World">>, 90),
    File("a", Nil, TRUE, TRUE, Nil, <<"there">>, 110),
    File("c", Nil, TRUE, TRUE, EntryLoadError, <<>>, 0),
    File("b", Nil, FALSE, FALSE, Nil, <<>>, 0),
    File("d", Nil, TRUE, FALSE, Nil, <<>>, 0),
    File("d", FileSystemError, FALSE, FALSE, Nil, <<>>, 0) }

\* Further entries, met in short walks only: a second entry that fails to
\* load, and a loadable entry whose date cannot be read.
MoreFiles ==
  Files \cup
  { File("e", Nil, TRUE, TRUE, OtherLoadError, <<>>, 0),
    File("f", Nil, TRUE, TRUE, Nil, <<"World", "hi">>, 0) }

Trees ==
  UNION ( {[1..n -> Files] : n \in 0..MaxFiles}
          \cup {[1..n -> MoreFiles] : n \in 0..MaxMoreFiles} )

VARIABLES
  tree,         \* the directory tree, in walk order
  numScanners,  \* pool size of this run
  mainPc,       \* where statsCmd.Run is
  runErr,       \* what Run returns (Unset until it decides)
  doneMade,     \* number of times done was created
  doneCloses,   \* number of close(done) calls
  walkerPc,     \* where walkFiles's goroutine is
  walkIdx,      \* the entry Walk is visiting
  visited,      \* visited map: base names marked
  walkRes,      \* what filepath.Walk returned
  errc,         \* errc's buffer
  pathsCloses,  \* number of close(paths) calls
  workerPc,     \* where each entryScanner goroutine is
  workerRes,    \* the result a worker is trying to send
  wg,           \* WaitGroup counter
  closerPc,     \* where the goroutine of lines 52-55 is
  cCloses,      \* number of close(c) calls
  entryCount,   \* Run's entryCount
  wordMap,      \* Run's wordMap
  minDate,      \* Run's minDate
  statsEmitted, \* the scalar statistics were printed
  output,       \* what Run printed, line by line
  emitted,      \* history: indices of the paths handed to a worker
  published     \* history: results received from c, in arrival order

vars == <<tree, numScanners, mainPc, runErr, doneMade, doneCloses, walkerPc,
          walkIdx, visited, walkRes, errc, pathsCloses, workerPc, workerRes,
          wg, closerPc, cCloses, entryCount, wordMap, minDate, statsEmitted,
          output, emitted, published>>

mainVars == <<mainPc, runErr, entryCount, wordMap, minDate, statsEmitted,
              output>>
walkVars == <<walkerPc, walkIdx, visited, walkRes, pathsCloses>>
poolVars == <<workerPc, workerRes, wg>>
closeVars == <<closerPc, cCloses>>
doneVars == <<doneMade, doneCloses>>
inputVars == <<tree, numScanners>>

Workers == 1..numScanners

doneClosed == doneCloses > 0
pathsClosed == pathsCloses > 0
cClosed == cCloses > 0

EmptyMap == [w \in Vocab |-> 0]
NoResult == [path |-> 0, wordMap |-> EmptyMap, date |-> 0, err |-> Unset]

Init ==
  /\ tree \in Trees
  /\ numScanners \in 1..MaxScanners
  /\ mainPc = "start"
  /\ runErr = Unset
  /\ doneMade = 0
  /\ doneCloses = 0
  /\ walkerPc = "idle"
  /\ walkIdx = 1
  /\ visited = {}
  /\ walkRes = Unset
  /\ errc = <<>>
  /\ pathsCloses = 0
  /\ workerPc = [w \in Workers |-> "idle"]
  /\ workerRes = [w \in Workers |-> NoResult]
  /\ wg = 0
  /\ closerPc = "idle"
  /\ cCloses = 0
  /\ entryCount = 0
  /\ wordMap = EmptyMap
  /\ minDate = Now
  /\ statsEmitted = FALSE
  /\ output = <<>>
  /\ emitted = <<>>
  /\ published = <<>>

\* ------------------------------------------------------------ helpers
\* Mutant of Skip: the visited map is not consulted.
SkipNoVisited(f, vis) == ~f.regular \/ ~f.isEntry

\* Mutant of WalkFailed: the callback ignores the error Walk passes it.
WalkErrIgnored(f) == FALSE

\* Line 153: err != nil.
WalkFailed(f) == f.walkErr # Nil

\* Line 156: the callback returns nil without publishing.
Skip(f, vis) == ~f.regular \/ f.name \in vis \/ ~f.isEntry

\* Lines 177-179: m[strings.ToLower(string(word))]++ for each word.
RECURSIVE CountWords(_)
CountWords(ws) ==
  IF ws = <<>> THEN EmptyMap
  ELSE LET m == CountWords(Tail(ws))
           k == ToLower(Head(ws))
       IN [m EXCEPT ![k] = @ + 1]

\* Mutant of Scan: a date that cannot be read makes the result a failure.
ScanDateErrorFatal(i, f) ==
  [path |-> i,
   wordMap |-> IF f.loadErr = Nil /\ f.date # 0 THEN CountWords(f.words)
               ELSE EmptyMap,
   date |-> f.date,
   err |-> IF f.loadErr # Nil THEN f.loadErr
           ELSE IF f.date = 0 THEN "DateParseError"
           ELSE Nil]

\* Lines 173-183: the result entryScanner builds for the path. Words are
\* counted only when Load succeeded; the date error is discarded. The path
\* field is history (the program's result has none).
Scan(i, f) ==
  [path |-> i,
   wordMap |-> IF f.loadErr = Nil THEN CountWords(f.words) ELSE EmptyMap,
   date |-> f.date,
   err |-> f.loadErr]

\* Mutant of Merge: wordMap[word] = count.
MergeOverwrites(wm, m) == [w \in Vocab |-> IF m[w] > 0 THEN m[w] ELSE wm[w]]

\* Lines 65-67: wordMap[word] += count.
Merge(wm, m) == [w \in Vocab |-> wm[w] + m[w]]

\* Mutant of EarlierDate: Before in place of After.
LaterDate(md, d) == IF md < d THEN d ELSE md

\* Lines 68-70: if minDate.After(r.date) { minDate = r.date }.
EarlierDate(md, d) == IF md > d THEN d ELSE md

\* Line 61: r.err != nil.
\* Mutant of Failed: a failed result is merged like any other.
FailureIgnored(r) == FALSE

Failed(r) == r.err # Nil

\* Mutant of WaitReturns: the counter is one short (wg.Add(numScanners - 1)).
WaitReturnsOneShort(n) == n <= 1

\* Mutant of WaitReturns: the closer waits for the first worker only.
WaitReturnsFirstExit(n) == n < numScanners

\* Line 53: wg.Wait() returns when the counter is zero.
WaitReturns(n) == n = 0

\* len(wordMap): the words with an entry in the map.
DistinctWords(wm) == {w \in Vocab : wm[w] > 0}

\* ----------------------------------------------------------- Run, setup
\* Lines 30-37: os.Getwd or EvalSymlinks fails; Run returns before the
\* pipeline exists.
GetwdFail ==
  /\ mainPc = "start"
  /\ mainPc' = "returned"
  /\ runErr' = WorkingDirectoryError
  /\ UNCHANGED <<inputVars, doneVars, walkVars, errc, poolVars, closeVars,
                 entryCount, wordMap, minDate, statsEmitted, output, emitted,
                 published>>

\* Lines 39-59: make(done), defer close(done), walkFiles starts its
\* goroutine, wg.Add(numScanners), the workers and the closer start.
Setup ==
  /\ mainPc = "start"
  /\ mainPc' = "range"
  /\ doneMade' = doneMade + 1
  /\ walkerPc' = "walk"
  /\ workerPc' = [w \in Workers |-> "recv"]
  /\ wg' = wg + numScanners
  /\ closerPc' = "wait"
  /\ UNCHANGED <<inputVars, runErr, doneCloses, walkIdx, visited, walkRes,
                 errc, pathsCloses, workerRes, cCloses, entryCount, wordMap,
                 minDate, statsEmitted, output, emitted, published>>

\* ------------------------------------------------------------- walkFiles
\* Lines 152-159: Walk calls the callback on the next entry. An error from
\* Walk is returned and ends the walk; a skipped entry returns nil; else
\* the base name is marked and the callback reaches its select.
WalkVisit ==
  /\ walkerPc = "walk"
  /\ walkIdx <= Len(tree)
  /\ LET f == tree[walkIdx] IN
       IF WalkFailed(f)
       THEN /\ walkRes' = f.walkErr
            /\ walkerPc' = "errc"
            /\ UNCHANGED <<walkIdx, visited>>
       ELSE IF Skip(f, visited)
       THEN /\ walkIdx' = walkIdx + 1
            /\ UNCHANGED <<walkerPc, visited, walkRes>>
       ELSE /\ visited' = visited \cup {f.name}
            /\ walkerPc' = "select"
            /\ UNCHANGED <<walkIdx, walkRes>>
  /\ UNCHANGED <<inputVars, mainVars, doneVars, errc, pathsCloses, poolVars,
                 closeVars, emitted, published>>

\* Walk has visited the whole tree and returns nil.
WalkReturn ==
  /\ walkerPc = "walk"
  /\ walkIdx > Len(tree)
  /\ walkRes' = Nil
  /\ walkerPc' = "errc"
  /\ UNCHANGED <<inputVars, mainVars, doneVars, walkIdx, visited, errc,
                 pathsCloses, poolVars, closeVars, emitted, published>>

\* Line 161 with line 172: paths <- path meets a worker's receive. The
\* worker loads the entry and builds its result (lines 173-181) and stands
\* at its select; the callback returns nil and Walk goes on.
SendPath(w) ==
  /\ walkerPc = "select"
  /\ workerPc[w] = "recv"
  /\ ~pathsClosed
  /\ workerPc' = [workerPc EXCEPT ![w] = "select"]
  /\ workerRes' = [workerRes EXCEPT ![w] = Scan(walkIdx, tree[walkIdx])]
  /\ emitted' = Append(emitted, walkIdx)
  /\ walkerPc' = "walk"
  /\ walkIdx' = walkIdx + 1
  /\ UNCHANGED <<inputVars, mainVars, doneVars, visited, walkRes, errc,
                 pathsCloses, wg, closeVars, published>>

\* Mutant of WalkCancel: the callback returns nil on <-done, so Walk goes on
\* to the next entry.
WalkCancelReturnsNil ==
  /\ walkerPc = "select"
  /\ doneClosed
  /\ walkerPc' = "walk"
  /\ walkIdx' = walkIdx + 1
  /\ UNCHANGED <<inputVars, mainVars, doneVars, visited, walkRes, errc,
                 pathsCloses, poolVars, closeVars, emitted, published>>

\* Lines 162-163: the select takes <-done; the callback's error ends Walk.
WalkCancel ==
  /\ walkerPc = "select"
  /\ doneClosed
  /\ walkRes' = WalkCanceled
  /\ walkerPc' = "errc"
  /\ UNCHANGED <<inputVars, mainVars, doneVars, walkIdx, visited, errc,
                 pathsCloses, poolVars, closeVars, emitted, published>>

\* Mutant of SendWalkErr: errc is unbuffered, so the send needs Run at its
\* receive of line 73.
SendWalkErrUnbuffered ==
  /\ walkerPc = "errc"
  /\ mainPc = "errc"
  /\ errc = <<>>
  /\ errc' = Append(errc, walkRes)
  /\ walkerPc' = "close"
  /\ UNCHANGED <<inputVars, mainVars, doneVars, walkIdx, visited, walkRes,
                 pathsCloses, poolVars, closeVars, emitted, published>>

\* Line 152: errc <- (Walk's result); errc has room for one value.
SendWalkErr ==
  /\ walkerPc = "errc"
  /\ Len(errc) < 1
  /\ errc' = Append(errc, walkRes)
  /\ walkerPc' = "close"
  /\ UNCHANGED <<inputVars, mainVars, doneVars, walkIdx, visited, walkRes,
                 pathsCloses, poolVars, closeVars, emitted, published>>

\* Line 150: the deferred close(paths).
ClosePaths ==
  /\ walkerPc = "close"
  /\ pathsCloses' = pathsCloses + 1
  /\ walkerPc' = "done"
  /\ UNCHANGED <<inputVars, mainVars, doneVars, walkIdx, visited, walkRes,
                 errc, poolVars, closeVars, emitted, published>>

\* ----------------------------------------------------------- entryScanner
\* Line 183 with lines 60-71: c <- result meets Run's receive. Run returns
\* the result's error at once (the deferred close is still to run), or
\* counts the entry, merges its words and keeps the earlier date. The
\* worker goes back to its range over paths.
SendResult(w) ==
  /\ workerPc[w] = "select"
  /\ mainPc = "range"
  /\ ~cClosed
  /\ LET r == workerRes[w] IN
       /\ published' = Append(published, r)
       /\ IF Failed(r)
          THEN /\ runErr' = r.err
               /\ mainPc' = "defer"
               /\ UNCHANGED <<entryCount, wordMap, minDate>>
          ELSE /\ entryCount' = entryCount + 1
               /\ wordMap' = Merge(wordMap, r.wordMap)
               /\ minDate' = EarlierDate(minDate, r.date)
               /\ UNCHANGED <<mainPc, runErr>>
  /\ workerPc' = [workerPc EXCEPT ![w] = "recv"]
  /\ workerRes' = [workerRes EXCEPT ![w] = NoResult]
  /\ UNCHANGED <<inputVars, doneVars, walkVars, errc, wg, closeVars,
                 statsEmitted, output, emitted>>

\* Mutant of ScanCancel: the worker sends with a plain c <- result, with no
\* case for done.
ScanCancelMissing(w) ==
  /\ FALSE
  /\ UNCHANGED vars

\* Mutant of ScanCancel: the worker gives up without done being closed (a
\* default case in the select).
ScanCancelUnguarded(w) ==
  /\ workerPc[w] = "select"
  /\ workerPc' = [workerPc EXCEPT ![w] = "wgdone"]
  /\ workerRes' = [workerRes EXCEPT ![w] = NoResult]
  /\ UNCHANGED <<inputVars, mainVars, doneVars, walkVars, errc, wg,
                 closeVars, emitted, published>>

\* Lines 184-185: the select takes <-done; entryScanner returns and the
\* result it held is dropped.
ScanCancel(w) ==
  /\ workerPc[w] = "select"
  /\ doneClosed
  /\ workerPc' = [workerPc EXCEPT ![w] = "wgdone"]
  /\ workerRes' = [workerRes EXCEPT ![w] = NoResult]
  /\ UNCHANGED <<inputVars, mainVars, doneVars, walkVars, errc, wg,
                 closeVars, emitted, published>>

\* Line 172: paths is closed, the range ends and entryScanner returns.
ScanEnd(w) ==
  /\ workerPc[w] = "recv"
  /\ pathsClosed
  /\ workerPc' = [workerPc EXCEPT ![w] = "wgdone"]
  /\ UNCHANGED <<inputVars, mainVars, doneVars, walkVars, errc, workerRes,
                 wg, closeVars, emitted, published>>

\* Line 49: wg.Done().
WgDone(w) ==
  /\ workerPc[w] = "wgdone"
  /\ workerPc' = [workerPc EXCEPT ![w] = "exited"]
  /\ wg' = wg - 1
  /\ UNCHANGED <<inputVars, mainVars, doneVars, walkVars, errc, workerRes,
                 closeVars, emitted, published>>

\* ------------------------------------------------------------ the closer
\* Line 53: wg.Wait() returns.
WgWait ==
  /\ closerPc = "wait"
  /\ WaitReturns(wg)
  /\ closerPc' = "close"
  /\ UNCHANGED <<inputVars, mainVars, doneVars, walkVars, errc, poolVars,
                 cCloses, emitted, published>>

\* Line 54: close(c).
CloseC ==
  /\ closerPc = "close"
  /\ cCloses' = cCloses + 1
  /\ closerPc' = "done"
  /\ UNCHANGED <<inputVars, mainVars, doneVars, walkVars, errc, poolVars,
                 emitted, published>>

\* ------------------------------------------------------ Run, after the loop
\* Line 60: c is closed and the range over it ends.
RangeEnd ==
  /\ mainPc = "range"
  /\ cClosed
  /\ mainPc' = "errc"
  /\ UNCHANGED <<inputVars, runErr, entryCount, wordMap, minDate,
                 statsEmitted, output, doneVars, walkVars, errc, poolVars, closeVars,
                 emitted, published>>

\* Mutant of ReadWalkErr: the value taken from errc is not looked at.
ReadWalkErrIgnored ==
  /\ mainPc = "errc"
  /\ errc # <<>>
  /\ errc' = Tail(errc)
  /\ mainPc' = "report"
  /\ UNCHANGED <<inputVars, runErr, entryCount, wordMap, minDate,
                 statsEmitted, output, doneVars, walkVars, poolVars, closeVars,
                 emitted, published>>

\* Lines 73-75: err := <-errc; a non-nil walk error is returned.
ReadWalkErr ==
  /\ mainPc = "errc"
  /\ errc # <<>>
  /\ errc' = Tail(errc)
  /\ IF Head(errc) # Nil
     THEN /\ runErr' = Head(errc)
          /\ mainPc' = "defer"
     ELSE /\ mainPc' = "report"
          /\ UNCHANGED runErr
  /\ UNCHANGED <<inputVars, entryCount, wordMap, minDate, statsEmitted, output,
                 doneVars, walkVars, poolVars, closeVars, emitted, published>>

\* Line 76: entryCount > 0.
\* Mutant of HasEntries: the report runs for an empty journal too.
HasEntriesAlways(n) == n >= 0

HasEntries(n) == n > 0

\* Line 77: math.Floor(t.Sub(minDate).Hours() / 24); minDate is never after
\* t, so the quotient is not negative.
DaysSince(md) == (Now - md) \div 24

\* Lines 80-83: wordCount += count over wordMap.
RECURSIVE SumCounts(_, _)
SumCounts(wm, ws) ==
  IF ws = {} THEN 0
  ELSE LET w == CHOOSE w \in ws : TRUE
       IN wm[w] + SumCounts(wm, ws \ {w})

WordCount(wm) == SumCounts(wm, Vocab)

\* A printed line: the quantity printed is num / den (a float64 division,
\* which yields +Inf and no panic when den is 0).
Line(k, n, d) == [kind |-> k, num |-> n, den |-> d]

\* Lines 76-91 and 129: with no entry Run returns nil; else the scalar
\* statistics are printed, and Run returns nil when refFreqs is empty
\* (refNonEmpty is len(refFreqs) # 0, read here only).
Report ==
  /\ mainPc = "report"
  /\ \E refNonEmpty \in BOOLEAN :
       IF HasEntries(entryCount)
       THEN /\ statsEmitted' = TRUE
            /\ output' = output \o
                 << Line("percent", entryCount, DaysSince(minDate)),
                    Line("total", WordCount(wordMap), 1),
                    Line("average", WordCount(wordMap), entryCount) >>
            /\ IF refNonEmpty
               THEN /\ mainPc' = "rank"
                    /\ UNCHANGED runErr
               ELSE /\ mainPc' = "defer"
                    /\ runErr' = Nil
       ELSE /\ mainPc' = "defer"
            /\ runErr' = Nil
            /\ UNCHANGED <<statsEmitted, output>>
  /\ UNCHANGED <<inputVars, entryCount, wordMap, minDate, doneVars, walkVars,
                 errc, poolVars, closeVars, emitted, published>>

\* Lines 93-129: wordStats has one element per distinct word. The header
\* of line 116 is printed, then wordStats[:topUnusualWordCount] panics when
\* there are fewer than topUnusualWordCount elements; else both lists are
\* printed with topUnusualWordCount rows each and Run returns nil.
Rank ==
  /\ mainPc = "rank"
  /\ mainPc' = "defer"
  /\ LET n == Cardinality(DistinctWords(wordMap)) IN
       IF n < topUnusualWordCount
       THEN /\ runErr' = Panic
            /\ output' = Append(output,
                 Line("frequent header", topUnusualWordCount, 1))
       ELSE /\ runErr' = Nil
            /\ output' = output \o
                 << Line("frequent header", topUnusualWordCount, 1),
                    Line("frequent rows", topUnusualWordCount, 1),
                    Line("infrequent header", topUnusualWordCount, 1),
                    Line("infrequent rows", topUnusualWordCount, 1) >>
  /\ UNCHANGED <<inputVars, entryCount, wordMap, minDate, statsEmitted,
                 doneVars, walkVars, errc, poolVars, closeVars, emitted,
                 published>>

\* Mutant of DeferredClose: close(done) is the last statement of Run instead
\* of a deferred call, so the early returns of lines 62 and 74 skip it.
CloseAtEndOnly ==
  /\ mainPc = "defer"
  /\ doneCloses' = IF runErr = Nil THEN doneCloses + 1 ELSE doneCloses
  /\ mainPc' = IF runErr = Panic THEN "panicked" ELSE "returned"
  /\ UNCHANGED <<inputVars, runErr, entryCount, wordMap, minDate,
                 statsEmitted, output, doneMade, walkVars, errc, poolVars, closeVars,
                 emitted, published>>

\* Line 40: the deferred close(done) runs when Run returns or panics.
DeferredClose ==
  /\ mainPc = "defer"
  /\ doneCloses' = doneCloses + 1
  /\ mainPc' = IF runErr = Panic THEN "panicked" ELSE "returned"
  /\ UNCHANGED <<inputVars, runErr, entryCount, wordMap, minDate,
                 statsEmitted, output, doneMade, walkVars, errc, poolVars, closeVars,
                 emitted, published>>

\* ------------------------------------------------------------------ Next
Walker == WalkVisit \/ WalkReturn \/ WalkCancel \/ SendWalkErr \/ ClosePaths

Scanner(w) == ScanCancel(w) \/ ScanEnd(w) \/ WgDone(w)

Closer == WgWait \/ CloseC

Run ==
  \/ GetwdFail
  \/ Setup
  \/ RangeEnd
  \/ ReadWalkErr
  \/ Report
  \/ Rank
  \/ DeferredClose

Next ==
  \/ Run
  \/ Walker
  \/ Closer
  \/ \E w \in Workers : SendPath(w)
  \/ \E w \in Workers : SendResult(w)
  \/ \E w \in Workers : ScanCancel(w)
  \/ \E w \in Workers : ScanEnd(w)
  \/ \E w \in Workers : WgDone(w)

Spec == Init /\ [][Next]_vars

\* Every goroutine that can take a step eventually takes one.
FairSpec ==
  /\ Spec
  /\ WF_vars(Run)
  /\ WF_vars(Walker)
  /\ WF_vars(Closer)
  /\ \A w \in 1..MaxScanners :
       WF_vars(w \in Workers /\ (SendPath(w) \/ SendResult(w) \/ Scanner(w)))

\* ------------------------------------------------------- shared notions
Ended == mainPc \in {"returned", "panicked"}

EmittedSet == {emitted[k] : k \in 1..Len(emitted)}

\* Results for path i received from c, and results for it held by a worker
\* at its select.
PublishedFor(i) == {k \in 1..Len(published) : published[k].path = i}
HeldFor(i) == {w \in Workers : workerRes[w].path = i}

FailureConsumed == \E k \in 1..Len(published) : published[k].err # Nil
FailureProduced ==
  \/ FailureConsumed
  \/ \E w \in Workers : workerRes[w].err \notin {Nil, Unset}

\* The entries the callback can publish, and the first of them with a name.
Publishable(i) == tree[i].walkErr = Nil /\ tree[i].regular /\ tree[i].isEntry
FirstOfName(i) ==
  /\ Publishable(i)
  /\ \A h \in 1..(i - 1) : ~(Publishable(h) /\ tree[h].name = tree[i].name)

\* ---------------------------------------------------------------- claims
\* C1: every path handed to a worker has at most one result (held by the
\* worker at its select, or received from c), and exactly one unless done
\* is closed; it is never held by two workers nor handed off twice; every
\* result received from c is for a path the walker handed off.
C1_OneResultPerPath ==
  /\ \A i \in EmittedSet :
       /\ Cardinality(PublishedFor(i)) + Cardinality(HeldFor(i)) <= 1
       /\ ~doneClosed =>
            Cardinality(PublishedFor(i)) + Cardinality(HeldFor(i)) = 1
  /\ \A j, k \in 1..Len(emitted) : j # k => emitted[j] # emitted[k]
  /\ \A k \in 1..Len(published) : published[k].path \in EmittedSet
  /\ \A w \in Workers : workerRes[w] # NoResult => workerRes[w].path \in EmittedSet

\* C1 witness: two paths went to two workers; one result has arrived and
\* the other is still held, before any cancellation.
C1_Witness ==
  /\ Len(emitted) >= 2
  /\ ~doneClosed
  /\ Len(published) = 1
  /\ \E w \in Workers : workerRes[w] # NoResult

\* C2: c is closed at most once, and when it is closed every worker has
\* exited (its wg.Done has run), so none stands at its send on c.
C2_CloseAfterWorkers ==
  /\ cCloses <= 1
  /\ cClosed => \A w \in Workers : workerPc[w] = "exited"
  /\ cClosed => \A w \in Workers : workerPc[w] # "select"
  /\ closerPc = "done" => cCloses = 1

\* C2 witness: Run returned a per-file failure, a second worker was at work,
\* and c has been closed.
C2_Witness ==
  /\ cClosed
  /\ mainPc = "returned"
  /\ runErr = EntryLoadError
  /\ numScanners >= 2
  /\ Len(emitted) >= 2

\* C3: no path is emitted twice and no two emitted paths share a base name;
\* when the walk has passed a publishable entry whose name an earlier
\* publishable entry bears, the first entry of that name was emitted and the
\* later one was not.
C3_DedupByBaseName ==
  /\ \A j, k \in 1..Len(emitted) :
       j # k => /\ emitted[j] # emitted[k]
                /\ tree[emitted[j]].name # tree[emitted[k]].name
  /\ \A j \in 1..Len(tree) : \A i \in 1..(j - 1) :
       ( /\ walkIdx > j
         /\ Publishable(j)
         /\ FirstOfName(i)
         /\ tree[i].name = tree[j].name )
       => (i \in EmittedSet /\ j \notin EmittedSet)

\* C3 witness: the walk is over, it passed two publishable entries of one
\* name, and a path of another name was emitted too.
C3_Witness ==
  /\ walkerPc = "done"
  /\ Len(emitted) >= 2
  /\ \E j \in 1..Len(tree) : \E i \in 1..(j - 1) :
       /\ walkIdx > j
       /\ Publishable(j)
       /\ FirstOfName(i)
       /\ tree[i].name = tree[j].name

\* C4: once a worker has built a result that carries a failure, the scalar
\* statistics are never printed, and a run that has ended has a non-nil
\* error.
C4_FailureMeansError ==
  FailureProduced =>
    /\ ~statsEmitted
    /\ Ended => runErr \notin {Nil, Unset, Panic}

\* C4 witness: two successful results were merged before the failed one
\* arrived, and Run returned the failure.
C4_Witness ==
  /\ mainPc = "returned"
  /\ entryCount = 2
  /\ FailureConsumed
  /\ runErr = EntryLoadError

\* The successful results received so far, as a set (arrival order dropped).
MergedSet == {published[k] : k \in {k \in 1..Len(published) : published[k].err = Nil}}

RECURSIVE SumOf(_, _)
SumOf(rs, w) ==
  IF rs = {} THEN 0
  ELSE LET r == CHOOSE r \in rs : TRUE
       IN r.wordMap[w] + SumOf(rs \ {r}, w)

\* The least of Now and the dates of the results in rs.
LeastDate(rs) ==
  CHOOSE d \in {Now} \cup {r.date : r \in rs} :
    \A e \in {Now} \cup {r.date : r \in rs} : d <= e

\* C5: the aggregate is a function of the set of successful results that
\* were merged, whatever order they arrived in: entryCount is the size of
\* the set, each word's count is the sum over the set, minDate is the least
\* date of the set and the start time.
C5_OrderIndependent ==
  /\ entryCount = Cardinality(MergedSet)
  /\ wordMap = [w \in Vocab |-> SumOf(MergedSet, w)]
  /\ minDate = LeastDate(MergedSet)

\* C5 witness: a successful run in which the second path's result arrived
\* first, the two results differing in words and date.
C5_Witness ==
  /\ mainPc = "returned"
  /\ runErr = Nil
  /\ Len(published) >= 2
  /\ published[1].path > published[2].path
  /\ published[1].wordMap # published[2].wordMap
  /\ published[1].date < published[2].date

\* What a run over the tree from entry i on adds to count n and word map wm
\* when the entries are scanned and merged one after the other in walk
\* order, as a pool of one worker does.
RECURSIVE OneByOne(_, _, _, _)
OneByOne(i, vis, n, wm) ==
  IF i > Len(tree) THEN [entryCount |-> n, wordMap |-> wm]
  ELSE IF Skip(tree[i], vis) THEN OneByOne(i + 1, vis, n, wm)
  ELSE OneByOne(i + 1, vis \cup {tree[i].name}, n + 1,
                Merge(wm, Scan(i, tree[i]).wordMap))

\* C6: a run that ends with a nil error has the entry count and the merged
\* word counts of the one-by-one run over the same tree, whatever the size
\* of its pool.
C6_PoolSizeIndependent ==
  runErr = Nil =>
    /\ entryCount = OneByOne(1, {}, 0, EmptyMap).entryCount
    /\ wordMap = OneByOne(1, {}, 0, EmptyMap).wordMap

\* C6 witness: a pool of more than one worker ended with a nil error after
\* two workers held results at once.
C6_Witness ==
  /\ mainPc = "returned"
  /\ runErr = Nil
  /\ numScanners > 1
  /\ entryCount >= 2
  /\ published[1].path > published[2].path

\* C6 witness for the pool of one.
C6_WitnessPoolOfOne ==
  /\ mainPc = "returned"
  /\ runErr = Nil
  /\ numScanners = 1
  /\ entryCount >= 2

\* The walker, every worker and the closer have terminated (or were never
\* started).
GoroutinesGone ==
  /\ walkerPc \in {"idle", "done"}
  /\ \A w \in Workers : workerPc[w] \in {"idle", "exited"}
  /\ closerPc \in {"idle", "done"}

\* C7: under fair scheduling Run eventually returns, and once it has
\* returned the walker, every worker and the closer eventually terminate.
C7_RunReturnsNoLeak ==
  /\ <>(mainPc = "returned")
  /\ [](mainPc = "returned" => <>GoroutinesGone)

\* The part of C7 that holds of the pipeline: under fair scheduling Run
\* eventually ends, by returning or by the panic of line 117 unwinding
\* through the deferred close(done), and the goroutines then terminate: no
\* state of the pipeline is a deadlock and no goroutine is left blocked.
PipelineWindsDown ==
  /\ <>Ended
  /\ [](Ended => <>GoroutinesGone)

\* C8: done is created at most once and closed at most once; a run that
\* created it and has ended (by return or panic) has closed it exactly
\* once; it is closed only after it was created; once closed it stays
\* closed.
C8_DoneClosedOnce ==
  /\ [](/\ doneMade <= 1
        /\ doneCloses <= 1
        /\ doneClosed => doneMade = 1
        /\ (Ended /\ doneMade = 1) => doneCloses = 1
        /\ mainPc \notin {"start", "returned", "panicked"} =>
             (doneMade = 1 /\ doneCloses = 0))
  /\ [][doneClosed => doneClosed']_vars
  /\ [][doneCloses' # doneCloses => (mainPc = "defer" /\ Ended')]_vars

\* C8 witnesses: done closed once on the failure exit, on the walk-error
\* exit and on the success exit.
C8_Witness ==
  /\ mainPc = "returned"
  /\ runErr = EntryLoadError
  /\ doneCloses = 1
  /\ \E w \in Workers : workerPc[w] = "select"

C8_WitnessWalkError ==
  mainPc = "returned" /\ runErr = FileSystemError /\ doneCloses = 1

C8_WitnessSuccess ==
  mainPc = "returned" /\ runErr = Nil /\ doneCloses = 1 /\ entryCount > 0

\* C9 as stated: once done is closed the walker hands no path to a worker,
\* and its pending publish ends the walk with "walk canceled".
C9_NoHandOffAfterCancel ==
  [][doneClosed =>
       /\ emitted' = emitted
       /\ (walkerPc = "select" /\ walkerPc' # "select") =>
            walkRes' = WalkCanceled]_vars

\* C9 as amended: a publish ends either by handing the path to a worker
\* that stands at its receive (which may still happen after done is closed)
\* or, only when done is closed, by the cancellation branch; the
\* cancellation branch hands over neither the pending path nor any later
\* one, ends the walk, and "walk canceled" is the terminal error sent on
\* errc.
C9_CancelBranchAborts ==
  /\ [][(walkerPc = "select" /\ walkerPc' # "select") =>
          \/ /\ emitted' = Append(emitted, walkIdx)
             /\ walkerPc' = "walk"
             /\ walkRes' = walkRes
             /\ \E w \in Workers :
                  workerPc[w] = "recv" /\ workerPc'[w] = "select"
          \/ /\ doneClosed
             /\ emitted' = emitted
             /\ walkRes' = WalkCanceled
             /\ walkerPc' = "errc"]_vars
  /\ [](walkRes = WalkCanceled =>
          /\ doneClosed
          /\ walkerPc \in {"errc", "close", "done"}
          /\ \A i \in EmittedSet : i < walkIdx
          /\ walkerPc \in {"close", "done"} => errc = <<WalkCanceled>>)
  /\ [][walkRes = WalkCanceled => (emitted' = emitted /\ walkRes' = walkRes)]_vars

\* C9 witness: the walk was canceled at a publish, with a publishable entry
\* still ahead, and the walker has terminated.
C9_Witness ==
  /\ walkRes = WalkCanceled
  /\ walkerPc = "done"
  /\ \E j \in (walkIdx + 1)..Len(tree) :
       Publishable(j) /\ tree[j].name \notin visited

\* C10: when Run has left its loop over c without having received a failed
\* result, it has taken the walker's terminal error from errc, and if that
\* error is not nil it is the error Run returns and the statistics are not
\* printed.
C10_WalkErrorOverrides ==
  (/\ doneMade = 1
   /\ mainPc \notin {"start", "range", "errc"}
   /\ ~FailureConsumed)
  => /\ walkerPc \in {"close", "done"}
     /\ errc = <<>>
     /\ walkRes # Nil =>
          /\ runErr = walkRes
          /\ ~statsEmitted
          /\ mainPc \in {"defer", "returned"}

\* C10 witness: two successful results were merged, the walk then failed,
\* and Run returned the walk's error.
C10_Witness ==
  /\ mainPc = "returned"
  /\ entryCount = 2
  /\ ~FailureConsumed
  /\ walkRes = FileSystemError
  /\ runErr = FileSystemError

\* The printed lines of a kind.
Printed(k) == {j \in 1..Len(output) : output[j].kind = k}

Least(a, b) == IF a < b THEN a ELSE b

\* C11: once the ranked lists are begun (the header of the first list is
\* printed), Run does not panic, and each list is printed with
\* min(topUnusualWordCount, number of distinct words) rows.
C11_SmallVocabularyNoCrash ==
  (Printed("frequent header") # {} /\ mainPc # "rank") =>
    /\ runErr # Panic
    /\ \E j \in Printed("frequent rows") : output[j].num =
         Least(topUnusualWordCount, Cardinality(DistinctWords(wordMap)))
    /\ \E j \in Printed("infrequent rows") : output[j].num =
         Least(topUnusualWordCount, Cardinality(DistinctWords(wordMap)))

\* C12 as stated: once done is closed, every party that stands at a send
\* or a receive on paths or c has a step of its own to take: the walker and
\* a worker at their selects, a worker at its receive from paths, Run at its
\* receive from c.
C12_CancelUnblocksAll ==
  doneClosed =>
    /\ walkerPc = "select" => ENABLED WalkCancel
    /\ \A w \in Workers :
         /\ workerPc[w] = "select" => ENABLED ScanCancel(w)
         /\ workerPc[w] = "recv" => ENABLED ScanEnd(w)
    /\ mainPc = "range" => ENABLED RangeEnd

\* C12 as amended: once done is closed, the walker at its send and every
\* worker at its send have the cancellation step to take, and Run is no
\* longer receiving from c; a worker at its receive from paths has no case
\* for done: it is released by the walker, which either still hands it a
\* path or closes paths, and the walker never terminates without closing
\* paths.
C12_CancelUnblocksSenders ==
  /\ doneClosed =>
       /\ walkerPc = "select" => ENABLED WalkCancel
       /\ \A w \in Workers : workerPc[w] = "select" => ENABLED ScanCancel(w)
       /\ mainPc \notin {"range", "errc"}
  /\ \A w \in Workers :
       workerPc[w] = "recv" =>
         \/ ENABLED ScanEnd(w)
         \/ walkerPc \in {"walk", "select", "errc", "close"}
  /\ \A w \in Workers : ENABLED ScanEnd(w) <=> (workerPc[w] = "recv" /\ pathsClosed)

\* C12 witness: done is closed while the walker and one worker stand at
\* their selects and the other worker at its receive from paths.
C12_Witness ==
  /\ doneClosed
  /\ walkerPc = "select"
  /\ \E w \in Workers : workerPc[w] = "select"
  /\ \E w \in Workers : workerPc[w] = "recv"

\* C13: when Run has read a nil walk error after its loop and counted no
\* entry, it returns nil, prints nothing (no percentage, no average: no
\* division is made) and never reaches the ranking.
C13_NoEntriesNoReport ==
  (/\ doneMade = 1
   /\ mainPc \notin {"start", "range", "errc", "report"}
   /\ ~FailureConsumed
   /\ walkRes = Nil
   /\ entryCount = 0)
  => /\ runErr = Nil
     /\ mainPc \in {"defer", "returned"}
     /\ output = <<>>
     /\ ~statsEmitted

\* C13 witness: the walk passed entries, none of them a journal entry, and
\* Run returned nil.
C13_Witness ==
  /\ mainPc = "returned"
  /\ runErr = Nil
  /\ Len(tree) >= 2
  /\ entryCount = 0
  /\ output = <<>>

\* C14: the step that receives a failed result merges nothing, makes that
\* result's error the error of Run and leaves the loop; from then on Run
\* receives no result, changes neither its aggregate nor its error, and
\* takes nothing from errc; so the failed result is the last one received
\* and its error is the one Run returns.
C14_FirstErrorWins ==
  /\ [][(~FailureConsumed /\ FailureConsumed') =>
          /\ entryCount' = entryCount
          /\ wordMap' = wordMap
          /\ minDate' = minDate
          /\ runErr' = published'[Len(published')].err
          /\ mainPc' = "defer"]_vars
  /\ [][FailureConsumed =>
          /\ published' = published
          /\ <<entryCount, wordMap, minDate, runErr>>' =
               <<entryCount, wordMap, minDate, runErr>>
          /\ Len(errc') >= Len(errc)
          /\ mainPc' \in {"defer", "returned"}]_vars
  /\ [](FailureConsumed =>
          /\ runErr = published[Len(published)].err
          /\ \A k \in 1..(Len(published) - 1) : published[k].err = Nil)

\* C14 witness: Run returned the first failure while another worker holds
\* a different failure at its select.
C14_Witness ==
  /\ mainPc = "returned"
  /\ runErr = EntryLoadError
  /\ \E w \in Workers : workerRes[w].err = OtherLoadError

\* C14 witness for the walker's error: Run returned the failure and the
\* walker's "walk canceled" stays unread in errc.
C14_WitnessWalkError ==
  /\ mainPc = "returned"
  /\ runErr = EntryLoadError
  /\ walkerPc = "done"
  /\ errc = <<WalkCanceled>>

\* C15: paths is closed at most once, and exactly when the walker's
\* goroutine ends, whichever way the walk ended; no path is handed over once
\* it is closed. A walk error ends the walk at the entry it came with: that
\* error is Walk's result and no later path is handed over. A walk that
\* returns nil has visited the whole tree, met no error and handed over the
\* first entry of every name. Walk's result is the value sent on errc.
C15_PathsClosedOnce ==
  /\ [](/\ pathsCloses <= 1
        /\ pathsClosed <=> walkerPc = "done"
        /\ walkerPc \in {"errc", "close", "done"} =>
             walkRes \in {Nil, FileSystemError, WalkCanceled}
        /\ walkRes = FileSystemError =>
             /\ tree[walkIdx].walkErr = FileSystemError
             /\ \A i \in EmittedSet : i < walkIdx
             /\ \A i \in 1..(walkIdx - 1) : tree[i].walkErr = Nil
        /\ walkRes = Nil =>
             /\ walkIdx = Len(tree) + 1
             /\ \A i \in 1..Len(tree) : tree[i].walkErr = Nil
             /\ \A i \in 1..Len(tree) : FirstOfName(i) => i \in EmittedSet
        /\ walkerPc \in {"close", "done"} =>
             \/ errc = <<walkRes>>
             \/ errc = <<>> /\ mainPc \notin {"start", "range", "errc"})
  /\ [][(pathsClosed \/ walkRes # Unset) => emitted' = emitted]_vars
  /\ [][walkRes # Unset => walkRes' = walkRes]_vars

\* C15 witness: the walk handed a path over, then met an error with a
\* publishable entry still ahead; the walker has closed paths and ended.
C15_Witness ==
  /\ walkerPc = "done"
  /\ pathsCloses = 1
  /\ walkRes = FileSystemError
  /\ Len(emitted) >= 1
  /\ \E j \in (walkIdx + 1)..Len(tree) :
       Publishable(j) /\ tree[j].name \notin visited

\* C16: errc never holds more than one value; the walker sends on it once,
\* the value being Walk's result, and that send is always possible when the
\* walker reaches it; once Run has ended the walker has a step of its own
\* to take until it has terminated, whether or not errc is ever read.
C16_TerminalErrorNeverBlocks ==
  /\ [](/\ Len(errc) <= 1
        /\ walkerPc = "errc" => ENABLED SendWalkErr
        /\ (Ended /\ walkerPc \notin {"idle", "done"}) => ENABLED Walker)
  /\ [][Len(errc') > Len(errc) =>
          /\ walkerPc = "errc"
          /\ walkerPc' = "close"
          /\ errc' = <<walkRes>>]_vars
  /\ [][(walkerPc = "close" \/ walkerPc = "done") =>
          (walkerPc' = "close" \/ walkerPc' = "done")]_vars

\* C16 witness: Run returned a per-file failure and never read errc; the
\* walker has sent its error and terminated.
C16_Witness ==
  /\ mainPc = "returned"
  /\ runErr \in {EntryLoadError, OtherLoadError}
  /\ walkerPc = "done"
  /\ Len(errc) = 1

\* The number of tokens of entry i whose lower-cased form is w.
TokensOf(i, w) ==
  Cardinality({k \in 1..Len(tree[i].words) :
                 (tree[i].words[k] = w
                  \/ (tree[i].words[k] = "Hi" /\ w = "hi")
                  \/ (tree[i].words[k] = "World" /\ w = "world"))})

\* All results built so far: received from c or held by a worker.
ResultsBuilt ==
  {published[k] : k \in 1..Len(published)}
  \cup {workerRes[w] : w \in {w \in Workers : workerRes[w] # NoResult}}

\* C17: a result carries a failure exactly when loading its entry failed,
\* and then it carries the load error and an empty word map; when loading
\* succeeded the result has the entry's word counts and the date Date()
\* gave, also when the date could not be read (the zero date); such a
\* result, once received, is counted as an entry.
C17_FailureIffLoadFailed ==
  /\ \A r \in ResultsBuilt :
       /\ r.err # Nil <=> tree[r.path].loadErr # Nil
       /\ r.err = tree[r.path].loadErr
       /\ r.date = tree[r.path].date
       /\ r.err # Nil => r.wordMap = EmptyMap
       /\ r.err = Nil => r.wordMap = [w \in Vocab |-> TokensOf(r.path, w)]
  /\ entryCount =
       Cardinality({k \in 1..Len(published) : tree[published[k].path].loadErr = Nil})

\* C17 witness: an entry that loads but has no readable date was merged:
\* it is counted, its words are in the total and minDate is the zero date.
C17_Witness ==
  /\ mainPc = "returned"
  /\ runErr = Nil
  /\ entryCount = 2
  /\ \E k \in 1..Len(published) :
       /\ published[k].date = 0
       /\ published[k].err = Nil
       /\ published[k].wordMap["world"] = 1
  /\ minDate = 0

\* C17 witness for the failure: a failed result with an empty word map was
\* received.
C17_WitnessFailure ==
  \E k \in 1..Len(published) :
    published[k].err = OtherLoadError /\ published[k].wordMap = EmptyMap

\* C18: minDate starts at the start time and never grows; the step that
\* merges a result makes it the lesser of its previous value and the
\* result's date; so it is never after the start time, and is always the
\* least of the start time and the dates of the merged results.
C18_EarliestDateMonotone ==
  /\ minDate = Now
  /\ [][minDate' <= minDate]_vars
  /\ [][Len(published') > Len(published) =>
          LET r == published'[Len(published')] IN
            minDate' = IF r.err # Nil THEN minDate
                       ELSE IF r.date < minDate THEN r.date
                       ELSE minDate]_vars
  /\ [](/\ minDate <= Now
        /\ \A k \in 1..Len(published) :
             published[k].err = Nil => minDate <= published[k].date
        /\ \/ minDate = Now
           \/ \E k \in 1..Len(published) :
                published[k].err = Nil /\ minDate = published[k].date)

\* C18 witness: a result dated after the start time was merged, then one
\* dated before it; minDate is the date of the second.
C18_Witness ==
  /\ Len(published) = 2
  /\ published[1].err = Nil
  /\ published[1].date > Now
  /\ published[2].err = Nil
  /\ published[2].date < Now
  /\ published[2].date > 0
  /\ minDate = published[2].date

\* C18 witness: the earliest result arrived first and a later one did not
\* replace it.
C18_WitnessEarliestFirst ==
  /\ Len(published) = 2
  /\ published[1].err = Nil
  /\ published[2].err = Nil
  /\ published[1].date < published[2].date
  /\ published[2].date < Now
  /\ minDate = published[1].date

\* The tokens of the entries es (a sequence of paths) whose lower-cased
\* form is w, and all their tokens.
RECURSIVE TokenSum(_, _)
TokenSum(es, w) ==
  IF es = <<>> THEN 0 ELSE TokensOf(Head(es), w) + TokenSum(Tail(es), w)

RECURSIVE TotalTokens(_)
TotalTokens(es) ==
  IF es = <<>> THEN 0 ELSE Len(tree[Head(es)].words) + TotalTokens(Tail(es))

\* C19: when Run has returned nil, every path the walker sent was merged
\* exactly once: entryCount is the number of sent paths, the count of each
\* word is the number of tokens of the sent entries that lower-case to it,
\* and the printed total is the number of all their tokens.
C19_ConservationOnSuccess ==
  (mainPc = "returned" /\ runErr = Nil /\ doneMade = 1) =>
    /\ entryCount = Len(emitted)
    /\ Len(published) = Len(emitted)
    /\ \A i \in EmittedSet :
         /\ Cardinality(PublishedFor(i)) = 1
         /\ \A k \in PublishedFor(i) : published[k].err = Nil
    /\ \A w \in Vocab : wordMap[w] = TokenSum(emitted, w)
    /\ WordCount(wordMap) = TotalTokens(emitted)
    /\ \A j \in Printed("total") : output[j].num = TotalTokens(emitted)
    /\ entryCount > 0 => Cardinality(Printed("total")) = 1

\* C19 witness: the entries Hi hi there and Hi World were sent and Run
\* returned nil: 2 entries, hi 3 times, 5 words in all.
C19_Witness ==
  /\ mainPc = "returned"
  /\ runErr = Nil
  /\ Len(emitted) = 2
  /\ tree[emitted[1]].words = <<"Hi", "hi", "there">>
  /\ tree[emitted[2]].words = <<"Hi", "World">>
  /\ entryCount = 2
  /\ wordMap = [w \in Vocab |-> CASE w = "hi" -> 3 [] OTHER -> 1]
  /\ \E j \in Printed("total") : output[j].num = 5

\* C20: every printed percentage has a divisor of at least one day.
C20_DivisorAtLeastOne ==
  \A j \in Printed("percent") : output[j].den >= 1

\* The divisor is zero when the earliest entry is less than 24 hours before
\* the start time or after it, and negative never (minDate <= Now).
C20_DivisorZeroReached ==
  \E j \in Printed("percent") : output[j].den = 0 /\ output[j].num >= 1

====
